---- MODULE Spec2Model ----
(***************************************************************************)
(* Sand Saga (src/game.js): the grid simulation engine and its chunked     *)
(* dirty-tracking renderer.  The App object of the source is the record    *)
(* variable App; every function of the source that reads or writes App is  *)
(* an operator from an App record to the App record it leaves behind.      *)
(***************************************************************************)
EXTENDS Integers, Sequences, FiniteSets, TLC

VARIABLES
    App,              \* the global App object (game.js:8-33)
    currentMaterial,  \* let currentMaterial (game.js:510)
    brush,            \* let brush (game.js:672): size and soft
    saveFile,         \* the text of the last exported save file, parsed per field
    hist,             \* history: the operations performed so far, with their arguments
    pre,              \* history: the App object the last operation started from
    runB              \* the App object of a second, independent run (same seed, same grid)

vars == <<App, currentMaterial, brush, saveFile, hist, pre, runB>>

(***************************************************************************)
(* Bounds of the model.                                                    *)
(***************************************************************************)
\* width of the default resolution
GridW == 3
\* height of the default resolution
GridH == 2
\* operations per behaviour
MaxOps == 3
\* Math.random() comparisons per handler whose outcome is chosen freely
MaxDraws == 3
\* largest brush size
MaxBrush == 4
\* temperature unit: 1/TempScale degree (fixed point for Float32)
TempScale == 10
\* time units in one step interval of the frame loop
StepUnits == 2

\* App.chunkSize is 16 in the source; the model scales it with the grid so
\* that a bounded grid still spans several chunks.
chunkSize == 2

(***************************************************************************)
(* JavaScript values.                                                      *)
(***************************************************************************)
\* undefined, as returned by a lookup of a missing key; no index is ever -2
undefined == -2
Truthy(v) == v # undefined /\ v # 0
JsOr(a, b) == IF Truthy(a) THEN a ELSE b
\* a store into an Int32Array: undefined becomes 0
ToInt32(v) == IF v = undefined THEN 0 ELSE v
\* a typed array of length n filled with v, indexed from 0
NewArray(n, v) == [i \in 0..(n - 1) |-> v]
\* arr[i] = v on a typed array: an out-of-range store is ignored
ArrSet(arr, i, v) == IF i \in DOMAIN arr THEN [arr EXCEPT ![i] = v] ELSE arr
\* Math.ceil(a / b) for a >= 0, b > 0
CeilDiv(a, b) == (a + b - 1) \div b
\* Math.max
Max(a, b) == IF a > b THEN a ELSE b
Min(a, b) == IF a < b THEN a ELSE b

(***************************************************************************)
(* Material registry (prepareMaterials).                                   *)
(***************************************************************************)
MatDef(id, solid, flow, isGas, flammable, temp) ==
    [defined |-> TRUE, id |-> id, solid |-> solid, flow |-> flow,
     isGas |-> isGas, flammable |-> flammable, temp |-> temp]
\* what a lookup of a missing material yields
noMat == [defined |-> FALSE, id |-> "undefined", solid |-> FALSE, flow |-> FALSE,
          isGas |-> FALSE, flammable |-> FALSE, temp |-> 0]

\* defaultMaterials(): the built-in base materials, in key order; temp 0 is
\* "no temp property"
defaultMaterials ==
    << MatDef("EMPTY", FALSE, FALSE, FALSE, FALSE, 0),
       MatDef("SAND",  FALSE, TRUE,  FALSE, FALSE, 0),
       MatDef("WATER", FALSE, TRUE,  FALSE, FALSE, 0),
       MatDef("FIRE",  FALSE, FALSE, TRUE,  FALSE, 800),
       MatDef("STONE", TRUE,  FALSE, FALSE, FALSE, 0) >>

\* The materials the tick rules name beyond the defaults, as a materials.json
\* would define them (the file is data, not code: these are inputs), and a
\* solid material whose id begins with SAND.
extraMaterials ==
    << MatDef("OIL",   FALSE, TRUE,  FALSE, TRUE,  0),
       MatDef("ACID",  FALSE, TRUE,  FALSE, FALSE, 0),
       MatDef("METAL", TRUE,  FALSE, FALSE, FALSE, 0),
       MatDef("SEED",  FALSE, FALSE, FALSE, FALSE, 0),
       MatDef("WOOD",  TRUE,  FALSE, FALSE, TRUE,  0),
       MatDef("LAVA",  FALSE, TRUE,  FALSE, FALSE, 1000),
       MatDef("STEAM", FALSE, FALSE, TRUE,  FALSE, 0),
       MatDef("SANDSTONE", TRUE, FALSE, FALSE, FALSE, 0) >>

materialsData == [baseMaterials |-> defaultMaterials \o extraMaterials]

HasId(ms, id) == \E k \in 1..Len(ms) : ms[k].id = id

\* prepareMaterials(data): App.materials in Object.keys order: the base
\* materials, then the mandatory tools ERASER and WALL unless already there
prepareMaterials(data) ==
    LET base == data.baseMaterials
        withEraser == IF HasId(base, "ERASER") THEN base
                      ELSE Append(base, MatDef("ERASER", FALSE, FALSE, FALSE, FALSE, 0))
    IN  IF HasId(withEraser, "WALL") THEN withEraser
        ELSE Append(withEraser, MatDef("WALL", TRUE, FALSE, FALSE, FALSE, 0))

\* App.materials (read-only after boot)
materials == prepareMaterials(materialsData)

\* getMatIndex(id): the position of id in Object.keys(App.materials), or undefined
getMatIndex(id) ==
    IF HasId(materials, id)
    THEN (CHOOSE k \in 1..Len(materials) : materials[k].id = id) - 1
    ELSE undefined

\* getMatByIndex(idx): App.materials[keys[idx]], undefined when idx is no key position
getMatByIndex(mIdx) ==
    IF mIdx \in 0..(Len(materials) - 1) THEN materials[mIdx + 1] ELSE noMat

\* App.materials[id]
materialById(id) == IF HasId(materials, id) THEN getMatByIndex(getMatIndex(id)) ELSE noMat

\* id.startsWith(prefix)
startsWith(id, prefix) == Len(id) >= Len(prefix) /\ SubSeq(id, 1, Len(prefix)) = prefix

(***************************************************************************)
(* World memory model.                                                     *)
(***************************************************************************)
idx(a, x, y) == y * a.gridW + x

\* mutant of markAllDirty: fills the flags with 0
markAllDirtyZero(a) == [a EXCEPT !.dirtyChunks = [c \in DOMAIN a.dirtyChunks |-> 0]]

\* markAllDirty()
markAllDirty(a) == [a EXCEPT !.dirtyChunks = [c \in DOMAIN a.dirtyChunks |-> 1]]

\* mutant of markChunkDirtyForCell: the row stride is chunksY, not chunksX
markChunkDirtyWrongStride(a, x, y) ==
    LET cx == x \div chunkSize
        cy == y \div chunkSize
    IN  IF cx < 0 \/ cx >= a.chunksX \/ cy < 0 \/ cy >= a.chunksY THEN a
        ELSE [a EXCEPT !.dirtyChunks = ArrSet(a.dirtyChunks, cy * a.chunksY + cx, 1)]

\* markChunkDirtyForCell(x, y)
markChunkDirtyForCell(a, x, y) ==
    LET cx == x \div chunkSize
        cy == y \div chunkSize
    IN  IF cx < 0 \/ cx >= a.chunksX \/ cy < 0 \/ cy >= a.chunksY THEN a
        ELSE [a EXCEPT !.dirtyChunks = ArrSet(a.dirtyChunks, cy * a.chunksX + cx, 1)]

\* allocateWorld(w, h)
allocateWorld(a, w, h) ==
    LET cX == Max(1, CeilDiv(w, chunkSize))
        cY == Max(1, CeilDiv(h, chunkSize))
    IN  markAllDirty(
          [a EXCEPT !.gridW = w, !.gridH = h,
                    !.worldMat = NewArray(w * h, JsOr(getMatIndex("EMPTY"), -1)),
                    !.worldTemp = NewArray(w * h, 20 * TempScale),
                    !.worldMeta = NewArray(w * h, 0),
                    !.cleanMat = NewArray(w * h, JsOr(getMatIndex("EMPTY"), -1)),
                    !.chunksX = cX, !.chunksY = cY,
                    !.dirtyChunks = NewArray(cX * cY, 0)])

\* the chunk index of cell i of the flat arrays
chunkOfCell(a, i) == ((i \div a.gridW) \div chunkSize) * a.chunksX + ((i % a.gridW) \div chunkSize)

\* what ctx.clearRect leaves in a pixel: transparent, no colour
clearPixel == "clear"

\* the color property of the materials the source defines (game.js:106-110,
\* 142-143); a material defined without one has none
materialColor(id) ==
    CASE id = "EMPTY" -> "#000000"
      [] id = "SAND" -> "#c2b280"
      [] id = "WATER" -> "#3fb0ff"
      [] id = "FIRE" -> "#ff6b35"
      [] id = "STONE" -> "#9ea7a6"
      [] id = "ERASER" -> "#000000"
      [] id = "WALL" -> "#333333"
      [] OTHER -> ""

\* game.js:419-421: (mat && mat.color) ? mat.color : '#000000'
colorOf(mIdx) ==
    LET mat == getMatByIndex(mIdx)
    IN  IF mat.defined /\ materialColor(mat.id) # "" THEN materialColor(mat.id) ELSE "#000000"

\* render(): the surface is cleared, then every dirty chunk is repainted and
\* its flag cleared; surface is what each cell's rectangle of the canvas
\* shows.  cleanMat is history: for each cell, the material index it held
\* when the flag of its chunk was last cleared.
render(a) ==
    [a EXCEPT !.dirtyChunks = [c \in DOMAIN a.dirtyChunks |-> 0],
              !.cleanMat = [i \in DOMAIN a.worldMat |->
                               IF a.dirtyChunks[chunkOfCell(a, i)] # 0
                               THEN a.worldMat[i] ELSE a.cleanMat[i]],
              !.surface = [i \in DOMAIN a.worldMat |->
                              IF a.dirtyChunks[chunkOfCell(a, i)] # 0
                              THEN colorOf(a.worldMat[i]) ELSE clearPixel]]

\* the value of one decimal digit character, -1 for any other character
digitOf(ch) == IF \E d \in 0..9 : ToString(d) = ch
               THEN CHOOSE d \in 0..9 : ToString(d) = ch ELSE -1

\* parseInt(s): an optional sign and the leading decimal digits of s; NaN
\* (no digit) is rendered as 0, which the callers test with !w just like NaN
RECURSIVE parseDigits(_, _, _)
parseDigits(s, k, acc) ==
    IF k > Len(s) \/ digitOf(SubSeq(s, k, k)) < 0 THEN acc
    ELSE parseDigits(s, k + 1, acc * 10 + digitOf(SubSeq(s, k, k)))
parseInt(s) ==
    IF Len(s) > 0 /\ SubSeq(s, 1, 1) = "-" THEN 0 - parseDigits(s, 2, 0)
    ELSE parseDigits(s, 1, 0)

\* res.split('x'): the parts before and after the first 'x'
splitX(res) ==
    LET at == IF \E k \in 1..Len(res) : SubSeq(res, k, k) = "x"
              THEN CHOOSE k \in 1..Len(res) :
                       SubSeq(res, k, k) = "x" /\ \A j \in 1..(k - 1) : SubSeq(res, j, j) # "x"
              ELSE Len(res) + 1
    IN  << SubSeq(res, 1, at - 1), SubSeq(res, at + 1, Len(res)) >>

\* setResolution(res) with res such as "400x300"
setResolution(a, res) ==
    LET w == parseInt(splitX(res)[1])
        h == parseInt(splitX(res)[2])
    IN  IF w = 0 \/ h = 0 THEN a
        ELSE render(markAllDirty(allocateWorld([a EXCEPT !.gridW = w, !.gridH = h], w, h)))

\* setMatAt(x, y, id)
setMatAt(a, x, y, id) ==
    IF x < 0 \/ x >= a.gridW \/ y < 0 \/ y >= a.gridH THEN a
    ELSE markChunkDirtyForCell(
           [a EXCEPT !.worldMat =
               ArrSet(a.worldMat, idx(a, x, y),
                      ToInt32(JsOr(getMatIndex(id), getMatIndex("EMPTY"))))],
           x, y)
(***************************************************************************)
(* Random sources.                                                         *)
(***************************************************************************)
\* rand(seed): s = (s * 1664525 + 1013904223) >>> 0, kept to 32 bits as the
\* pair <<high 16 bits, low 16 bits>>
lcgA == 1664525
lcgC == 1013904223
Half == 65536
rngNext(s) ==
    LET p == s[2] * (lcgA % Half) + (lcgC % Half)
        q == s[1] * (lcgA % Half) + s[2] * (lcgA \div Half) + (lcgC \div Half) + (p \div Half)
    IN  << q % Half, p % Half >>
\* rng() < 0.5 for the value s / 4294967296 the call returns
rngBelowHalf(s) == s[1] < Half \div 2
\* a.rng advanced by one call
rngStep(a) == [a EXCEPT !.rng = rngNext(a.rng)]
\* rng() < 0.5 ? -1 : 1, with the state the call leaves
rngDir(a) == IF rngBelowHalf(rngNext(a.rng)) THEN -1 ELSE 1

(***************************************************************************)
(* simTick().                                                              *)
(***************************************************************************)
\* belowMat && !belowMat.solid for the material index found in a cell
nonSolidMat(mIdx) == getMatByIndex(mIdx).defined /\ ~getMatByIndex(mIdx).solid

\* mutant of moveCell: the temperature travels with the material (the two
\* cells exchange their temperatures)
moveCellCarryTemp(a, x, y, tx, ty, mIdx) ==
    LET a1 == [a EXCEPT !.worldMat = ArrSet(a.worldMat, idx(a, tx, ty), mIdx)]
        a2 == [a1 EXCEPT !.worldMat = ArrSet(a1.worldMat, idx(a, x, y),
                                             ToInt32(getMatIndex("EMPTY"))),
                         !.worldTemp = ArrSet(ArrSet(a1.worldTemp, idx(a, tx, ty),
                                                     a1.worldTemp[idx(a, x, y)]),
                                              idx(a, x, y), a1.worldTemp[idx(a, tx, ty)])]
    IN  markChunkDirtyForCell(markChunkDirtyForCell(a2, x, y), tx, ty)

\* the move the mover performs: destination takes mIdx, source takes EMPTY,
\* both chunks are marked
moveCell(a, x, y, tx, ty, mIdx) ==
    LET a1 == [a EXCEPT !.worldMat = ArrSet(a.worldMat, idx(a, tx, ty), mIdx)]
        a2 == [a1 EXCEPT !.worldMat = ArrSet(a1.worldMat, idx(a, x, y),
                                             ToInt32(getMatIndex("EMPTY")))]
    IN  markChunkDirtyForCell(markChunkDirtyForCell(a2, x, y), tx, ty)

\* game.js:229-254: the sand rule; done says the cell moved (continue)
sandRule(a, x, y, mIdx, mat) ==
    IF ~(startsWith(mat.id, "SAND") \/ mat.id = "SAND") \/ ~(y + 1 < a.gridH)
    THEN [a |-> a, done |-> FALSE]
    ELSE IF nonSolidMat(a.worldMat[idx(a, x, y + 1)])
    THEN [a |-> moveCell(a, x, y, x, y + 1, mIdx), done |-> TRUE]
    ELSE LET dir == rngDir(a)
             a1 == rngStep(a)
         IN  IF x + dir >= 0 /\ x + dir < a.gridW /\ y + 1 < a.gridH
                /\ nonSolidMat(a.worldMat[idx(a, x + dir, y + 1)])
             THEN [a |-> moveCell(a1, x, y, x + dir, y + 1, mIdx), done |-> TRUE]
             ELSE [a |-> a1, done |-> FALSE]

\* mutant of flowRule: the sideways move without the test that x + dx is a
\* column of the grid (a flat index outside the array reads undefined)
flowRuleNoEdge(a, x, y, mIdx, mat) ==
    IF ~(mat.flow \/ mat.id = "WATER" \/ mat.id = "OIL")
    THEN [a |-> a, done |-> FALSE]
    ELSE IF y + 1 < a.gridH /\ nonSolidMat(a.worldMat[idx(a, x, y + 1)])
    THEN [a |-> moveCell(a, x, y, x, y + 1, mIdx), done |-> TRUE]
    ELSE LET dx == rngDir(a)
             a1 == rngStep(a)
         IN  IF idx(a, x + dx, y) \in DOMAIN a.worldMat
                /\ nonSolidMat(a.worldMat[idx(a, x + dx, y)])
             THEN [a |-> moveCell(a1, x, y, x + dx, y, mIdx), done |-> TRUE]
             ELSE [a |-> a1, done |-> FALSE]

\* game.js:257-281: the liquid rule
flowRule(a, x, y, mIdx, mat) ==
    IF ~(mat.flow \/ mat.id = "WATER" \/ mat.id = "OIL")
    THEN [a |-> a, done |-> FALSE]
    ELSE IF y + 1 < a.gridH /\ nonSolidMat(a.worldMat[idx(a, x, y + 1)])
    THEN [a |-> moveCell(a, x, y, x, y + 1, mIdx), done |-> TRUE]
    ELSE LET dx == rngDir(a)
             a1 == rngStep(a)
         IN  IF x + dx >= 0 /\ x + dx < a.gridW
                /\ nonSolidMat(a.worldMat[idx(a, x + dx, y)])
             THEN [a |-> moveCell(a1, x, y, x + dx, y, mIdx), done |-> TRUE]
             ELSE [a |-> a1, done |-> FALSE]

\* game.js:284-295: the gas rule
gasRule(a, x, y, mIdx, mat) ==
    IF mat.isGas /\ y - 1 >= 0 /\ nonSolidMat(a.worldMat[idx(a, x, y - 1)])
    THEN [a |-> moveCell(a, x, y, x, y - 1, mIdx), done |-> TRUE]
    ELSE [a |-> a, done |-> FALSE]

\* x / d rounded to the nearest unit (the rounding of the Float32 store, in
\* units of 1/TempScale)
RoundDiv(n, d) == (2 * n + d) \div (2 * d)

\* game.js:299-306: the diffused temperature of cell (x, y)
diffusedTemp(a, x, y) ==
    LET t == a.worldTemp[idx(a, x, y)]
        nb == (IF x > 0 THEN {idx(a, x - 1, y)} ELSE {})
                \cup (IF x + 1 < a.gridW THEN {idx(a, x + 1, y)} ELSE {})
                \cup (IF y > 0 THEN {idx(a, x, y - 1)} ELSE {})
                \cup (IF y + 1 < a.gridH THEN {idx(a, x, y + 1)} ELSE {})
        count == 1 + Cardinality(nb)
        SumOf[S \in SUBSET nb] ==
            IF S = {} THEN 0
            ELSE LET e == CHOOSE e \in S : TRUE IN a.worldTemp[e] + SumOf[S \ {e}]
        sum == t + SumOf[nb]
    IN  t + RoundDiv(sum - count * t, count * 10)

\* game.js:298-327: the temperature stage of a cell that did not move
tempStage(a, x, y, mIdx, mat) ==
    LET i == idx(a, x, y)
        a0 == [a EXCEPT !.worldTemp = ArrSet(a.worldTemp, i, diffusedTemp(a, x, y))]
        a1 == IF mat.id = "WATER" /\ a0.worldTemp[i] > 100 * TempScale
              THEN markChunkDirtyForCell(
                     [a0 EXCEPT !.worldMat = ArrSet(a0.worldMat, i, JsOr(getMatIndex("STEAM"), mIdx)),
                                !.worldTemp = ArrSet(a0.worldTemp, i, a0.worldTemp[i] + 10 * TempScale)],
                     x, y)
              ELSE a0
        a2 == IF mat.id = "LAVA" /\ a1.worldTemp[i] < 500 * TempScale /\ HasId(materials, "STONE")
              THEN markChunkDirtyForCell(
                     [a1 EXCEPT !.worldMat = ArrSet(a1.worldMat, i, ToInt32(getMatIndex("STONE"))),
                                !.worldTemp = ArrSet(a1.worldTemp, i, 100 * TempScale)],
                     x, y)
              ELSE a1
    IN  IF mat.flammable /\ a2.worldTemp[i] > 300 * TempScale
        THEN markChunkDirtyForCell(
               [a2 EXCEPT !.worldMat = ArrSet(a2.worldMat, i, ToInt32(getMatIndex("FIRE"))),
                          !.worldTemp = ArrSet(a2.worldTemp, i, 800 * TempScale)],
               x, y)
        ELSE a2

\* game.js:219-328: the body of the pass-1 loop for cell (x, y)
pass1Cell(a, x, y) ==
    LET mIdx == a.worldMat[idx(a, x, y)]
        mat == getMatByIndex(mIdx)
    IN  IF mIdx < 0 \/ ~mat.defined \/ mat.id = "WALL" \/ mat.id = "ERASER" THEN a
        ELSE LET s == sandRule(a, x, y, mIdx, mat)
             IN  IF s.done THEN s.a
                 ELSE LET f == flowRule(s.a, x, y, mIdx, mat)
                      IN  IF f.done THEN f.a
                          ELSE LET g == gasRule(f.a, x, y, mIdx, mat)
                               IN  IF g.done THEN g.a
                                   ELSE IF g.a.toggleTemp
                                        THEN tempStage(g.a, x, y, mIdx, mat)
                                        ELSE g.a

\* mutant of pass1: the rows are visited from the top row to the bottom row
RECURSIVE pass1TopDown(_, _)
pass1TopDown(a, k) ==
    IF k >= a.gridW * a.gridH THEN a
    ELSE pass1TopDown(pass1Cell(a, k % a.gridW, k \div a.gridW), k + 1)

\* game.js:217-218: y from H-1 down to 0, x from 0 to W-1; k counts the cells done
RECURSIVE pass1(_, _)
pass1(a, k) ==
    IF k >= a.gridW * a.gridH THEN a
    ELSE pass1(pass1Cell(a, k % a.gridW, a.gridH - 1 - (k \div a.gridW)), k + 1)
\* neighborCoords(x, y): the cardinal neighbours inside the grid, in the
\* order left, right, up, down
neighborCoords(a, x, y) ==
    (IF x > 0 THEN << <<x - 1, y>> >> ELSE << >>)
      \o (IF x + 1 < a.gridW THEN << <<x + 1, y>> >> ELSE << >>)
      \o (IF y > 0 THEN << <<x, y - 1>> >> ELSE << >>)
      \o (IF y + 1 < a.gridH THEN << <<x, y + 1>> >> ELSE << >>)

\* Math.random() < p with 0 < p < 1: the outcome is the head of the list of
\* outcomes t.d chosen for this call of the handler (FALSE once it is used up)
randomBelow(t) == t.d # << >> /\ Head(t.d)
afterRandom(t) == [t EXCEPT !.d = IF t.d = << >> THEN << >> ELSE Tail(t.d)]

\* game.js:341-351: ACID corrodes each METAL neighbour with one draw each
RECURSIVE acidLoop(_, _)
acidLoop(t, nbs) ==
    IF nbs = << >> THEN t
    ELSE LET n == Head(nbs)
             ni == idx(t.a, n[1], n[2])
             nMat == getMatByIndex(t.a.worldMat[ni])
         IN  IF nMat.defined /\ nMat.id = "METAL"
             THEN LET t1 == afterRandom(t)
                  IN  IF randomBelow(t)
                      THEN acidLoop(
                             [t1 EXCEPT !.a = markChunkDirtyForCell(
                                 [t.a EXCEPT !.worldMat =
                                     ArrSet(t.a.worldMat, ni, ToInt32(getMatIndex("STONE")))],
                                 n[1], n[2])],
                             Tail(nbs))
                      ELSE acidLoop(t1, Tail(nbs))
             ELSE acidLoop(t, Tail(nbs))

\* game.js:355-363: OIL ignites with one draw per FIRE neighbour
RECURSIVE oilLoop(_, _, _, _)
oilLoop(t, x, y, nbs) ==
    IF nbs = << >> THEN t
    ELSE LET n == Head(nbs)
             nMat == getMatByIndex(t.a.worldMat[idx(t.a, n[1], n[2])])
         IN  IF nMat.defined /\ nMat.id = "FIRE"
             THEN LET t1 == afterRandom(t)
                  IN  IF randomBelow(t)
                      THEN oilLoop(
                             [t1 EXCEPT !.a = markChunkDirtyForCell(
                                 [t.a EXCEPT !.worldMat =
                                     ArrSet(t.a.worldMat, idx(t.a, x, y), ToInt32(getMatIndex("FIRE")))],
                                 x, y)],
                             x, y, Tail(nbs))
                      ELSE oilLoop(t1, x, y, Tail(nbs))
             ELSE oilLoop(t, x, y, Tail(nbs))

\* game.js:367-379: SEED next to WATER: one draw, then SEED again, then a
\* second draw that turns it into WOOD
RECURSIVE seedLoop(_, _, _, _)
seedLoop(t, x, y, nbs) ==
    IF nbs = << >> THEN t
    ELSE LET n == Head(nbs)
             i == idx(t.a, x, y)
             nMat == getMatByIndex(t.a.worldMat[idx(t.a, n[1], n[2])])
         IN  IF nMat.defined /\ nMat.id = "WATER"
             THEN LET t1 == afterRandom(t)
                  IN  IF randomBelow(t)
                      THEN LET aSeed == [t.a EXCEPT !.worldMat =
                                            ArrSet(t.a.worldMat, i, ToInt32(getMatIndex("SEED")))]
                               t2 == afterRandom(t1)
                           IN  IF randomBelow(t1)
                               THEN seedLoop(
                                      [t2 EXCEPT !.a = markChunkDirtyForCell(
                                          [aSeed EXCEPT !.worldMat =
                                              ArrSet(aSeed.worldMat, i, ToInt32(getMatIndex("WOOD")))],
                                          x, y)],
                                      x, y, Tail(nbs))
                               ELSE seedLoop([t2 EXCEPT !.a = aSeed], x, y, Tail(nbs))
                      ELSE seedLoop(t1, x, y, Tail(nbs))
             ELSE seedLoop(t, x, y, Tail(nbs))

\* game.js:334-380: the body of the pass-2 loop for cell (x, y)
pass2Cell(t, x, y) ==
    LET mat == getMatByIndex(t.a.worldMat[idx(t.a, x, y)])
    IN  IF ~mat.defined THEN t
        ELSE IF mat.id = "ACID" THEN acidLoop(t, neighborCoords(t.a, x, y))
        ELSE IF mat.id = "OIL" THEN oilLoop(t, x, y, neighborCoords(t.a, x, y))
        ELSE IF mat.id = "SEED" THEN seedLoop(t, x, y, neighborCoords(t.a, x, y))
        ELSE t

\* game.js:332-333: y from 0 to H-1, x from 0 to W-1
RECURSIVE pass2(_, _)
pass2(t, k) ==
    IF k >= t.a.gridW * t.a.gridH THEN t
    ELSE pass2(pass2Cell(t, k % t.a.gridW, k \div t.a.gridW), k + 1)

\* simTick(), with the outcomes of its Math.random() comparisons
simTick(a, draws) == pass2([a |-> pass1(a, 0), d |-> draws], 0).a

\* the number of Math.random() comparisons simTick makes when each fails
\* (one per reaction neighbour pair)
RECURSIVE reactionPairs(_, _)
reactionPairs(a, k) ==
    IF k >= a.gridW * a.gridH THEN 0
    ELSE LET x == k % a.gridW
             y == k \div a.gridW
             mat == getMatByIndex(a.worldMat[k])
             nbs == neighborCoords(a, x, y)
             want == IF ~mat.defined THEN "none"
                     ELSE IF mat.id = "ACID" THEN "METAL"
                     ELSE IF mat.id = "OIL" THEN "FIRE"
                     ELSE IF mat.id = "SEED" THEN "WATER"
                     ELSE "none"
         IN  Cardinality({j \in 1..Len(nbs) :
                 LET nMat == getMatByIndex(a.worldMat[idx(a, nbs[j][1], nbs[j][2])])
                 IN  nMat.defined /\ nMat.id = want})
               + reactionPairs(a, k + 1)

(***************************************************************************)
(* Painting.                                                               *)
(***************************************************************************)
\* mutant of brushCells: the bounds test forgets x >= gridW
brushCellsNoRightBound(a, gx, gy, radius) ==
    LET side == 2 * radius + 1
        all == [k \in 1..(side * side) |->
                   << gx + ((k - 1) % side) - radius, gy + ((k - 1) \div side) - radius >>]
        keep(c) == ~(c[1] < 0 \/ c[2] < 0 \/ c[2] >= a.gridH)
                   /\ ~((c[1] - gx) * (c[1] - gx) + (c[2] - gy) * (c[2] - gy) > radius * radius)
    IN  SelectSeq(all, keep)

\* the cells of the brush square in loop order (dy outer, dx inner) that
\* pass the bounds test and the distance test dist <= radius
brushCells(a, gx, gy, radius) ==
    LET side == 2 * radius + 1
        all == [k \in 1..(side * side) |->
                   << gx + ((k - 1) % side) - radius, gy + ((k - 1) \div side) - radius >>]
        keep(c) == ~(c[1] < 0 \/ c[2] < 0 \/ c[1] >= a.gridW \/ c[2] >= a.gridH)
                   /\ ~((c[1] - gx) * (c[1] - gx) + (c[2] - gy) * (c[2] - gy) > radius * radius)
    IN  SelectSeq(all, keep)

\* game.js:748-749: whether Math.random() < prob is certain: prob is 1 for a
\* hard brush and, for a soft one, clamp(1 - dist/radius, 0.05, 1), which is
\* 1 only at the centre
brushCertain(soft, gx, gy, c) == ~soft \/ (c[1] = gx /\ c[2] = gy)

\* game.js:750-756: the store into cell c
paintCell(a, c, cur) ==
    LET midx == JsOr(getMatIndex(cur), getMatIndex("EMPTY"))
        i == idx(a, c[1], c[2])
        temp == IF materialById(cur).defined
                THEN JsOr(materialById(cur).temp, 20) ELSE 20
    IN  markChunkDirtyForCell(
          [a EXCEPT !.worldMat = ArrSet(a.worldMat, i, ToInt32(midx)),
                    !.worldTemp = ArrSet(a.worldTemp, i, temp * TempScale)],
          c[1], c[2])

RECURSIVE paintLoop(_, _, _, _, _, _)
paintLoop(t, cells, gx, gy, soft, cur) ==
    IF cells = << >> THEN t
    ELSE LET c == Head(cells)
         IN  IF brushCertain(soft, gx, gy, c)
             THEN paintLoop([t EXCEPT !.a = paintCell(t.a, c, cur)], Tail(cells), gx, gy, soft, cur)
             ELSE IF randomBelow(t)
             THEN paintLoop([afterRandom(t) EXCEPT !.a = paintCell(t.a, c, cur)],
                            Tail(cells), gx, gy, soft, cur)
             ELSE paintLoop(afterRandom(t), Tail(cells), gx, gy, soft, cur)

\* drawBrushAt(gx, gy) with the current brush and material
drawBrushAt(a, gx, gy, br, cur, draws) ==
    paintLoop([a |-> a, d |-> draws], brushCells(a, gx, gy, br.size), gx, gy, br.soft, cur).a
(***************************************************************************)
(* Save and load.                                                          *)
(***************************************************************************)
\* JSON.stringify of a finite number, JSON.parse of a number token.  A
\* temperature is written as its count of 1/TempScale units.
jsonNumber(n) == ToString(n)
jsonParseNumber(s) == parseInt(s)

\* Array.from(typedArray), as the list of its JSON number tokens
jsonArray(arr) == [k \in 1..Cardinality(DOMAIN arr) |-> jsonNumber(arr[k - 1])]

\* saveWorldPrompt(): the exported file {w, h, mat, temp, meta}
saveWorldPrompt(a) ==
    [present |-> TRUE, w |-> jsonNumber(a.gridW), h |-> jsonNumber(a.gridH),
     mat |-> jsonArray(a.worldMat), hasTemp |-> TRUE, temp |-> jsonArray(a.worldTemp)]

\* mutant of typedArraySet: the copy starts one element late
typedArraySetShifted(arr, src) ==
    [i \in DOMAIN arr |-> IF i >= 1 /\ i <= Len(src) THEN jsonParseNumber(src[i]) ELSE arr[i]]

\* typedArray.set(source): copies source[0..] to the start of the array; a
\* source longer than the array is a RangeError and nothing is copied
typedArraySet(arr, src) ==
    [i \in DOMAIN arr |-> IF i + 1 <= Len(src) THEN jsonParseNumber(src[i + 1]) ELSE arr[i]]
setThrows(arr, src) == Len(src) > Cardinality(DOMAIN arr)

\* loadWorldPrompt's reader.onload for the file f; thrown says the handler
\* ended in an uncaught exception
loadWorld(a, f) ==
    LET w == jsonParseNumber(f.w)
        h == jsonParseNumber(f.h)
        a1 == allocateWorld(setResolution(a, jsonNumber(w) \o "x" \o jsonNumber(h)), w, h)
        a2 == [a1 EXCEPT !.worldMat = typedArraySet(a1.worldMat, f.mat)]
        \* parsed.temp || new Float32Array(w*h): a fresh Float32Array is all 0
        tempSrc == IF f.hasTemp THEN f.temp ELSE [k \in 1..(w * h) |-> jsonNumber(0)]
        a3 == [a2 EXCEPT !.worldTemp = typedArraySet(a2.worldTemp, tempSrc)]
    IN  IF ~(Truthy(w) /\ Truthy(h)) THEN [a |-> a, thrown |-> FALSE]
        ELSE IF setThrows(a1.worldMat, f.mat) THEN [a |-> a1, thrown |-> TRUE]
        ELSE IF setThrows(a2.worldTemp, tempSrc) THEN [a |-> a2, thrown |-> TRUE]
        ELSE [a |-> render(markAllDirty(a3)), thrown |-> FALSE]
(***************************************************************************)
(* Frame loop.  Time is counted in units of which StepUnits make one step  *)
(* interval stepSec = 1 / (App.simFPS * App.simSpeed); pending is the      *)
(* number of loop callbacks requestAnimationFrame holds.                   *)
(***************************************************************************)
\* startLoop(): App.running = true; requestAnimationFrame(loop)
startLoop(a) == [a EXCEPT !.running = TRUE, !.pending = @ + 1]

\* the most simulation steps one frame runs (ticks < 6)
loopCap == 6

\* mutant of loopTicks: the time above the cap is dropped from the accumulator
RECURSIVE loopTicksDropExcess(_)
loopTicksDropExcess(t) ==
    IF t.a.tickAccumulator >= StepUnits /\ t.ticks < loopCap
    THEN loopTicksDropExcess(
           [a |-> [(IF t.a.running THEN simTick(t.a, << >>) ELSE t.a)
                      EXCEPT !.tickAccumulator = @ - StepUnits],
            ticks |-> t.ticks + 1,
            calls |-> t.calls + (IF t.a.running THEN 1 ELSE 0)])
    ELSE [t EXCEPT !.a.tickAccumulator = @ % StepUnits]

\* game.js:445-449: the while loop of loop(); calls counts the simTick calls.
\* The grids it runs on hold no reaction pair, so simTick draws no
\* Math.random() value.
RECURSIVE loopTicks(_)
loopTicks(t) ==
    IF t.a.tickAccumulator >= StepUnits /\ t.ticks < loopCap
    THEN loopTicks(
           [a |-> [(IF t.a.running THEN simTick(t.a, << >>) ELSE t.a)
                      EXCEPT !.tickAccumulator = @ - StepUnits],
            ticks |-> t.ticks + 1,
            calls |-> t.calls + (IF t.a.running THEN 1 ELSE 0)])
    ELSE t

\* game.js:454: if(App.running) requestAnimationFrame(loop)
loopReschedule(a) == IF a.running THEN [a EXCEPT !.pending = @ + 1] ELSE a

\* game.js:450-454: after the while loop, render() once and reschedule
loopEnd(t) == [a |-> loopReschedule(render(t.a)), calls |-> t.calls, renders |-> 1]

\* loop(now) with dt = now - App.lastTime: the App object it leaves, the
\* number of simTick calls and of render calls it made
loop(a, dt) ==
    loopEnd(loopTicks([a |-> [a EXCEPT !.tickAccumulator = @ + dt, !.pending = @ - 1],
                       ticks |-> 0, calls |-> 0]))

\* the playPause button and the Space key
playPause(a) ==
    LET a1 == [a EXCEPT !.running = ~a.running]
    IN  IF a1.running THEN startLoop(a1) ELSE a1

(***************************************************************************)
(* Initial states.                                                         *)
(***************************************************************************)
\* the App object before boot() allocates a world
App0 ==
    [gridW |-> 0, gridH |-> 0, worldMat |-> << >>, worldTemp |-> << >>,
     worldMeta |-> << >>, cleanMat |-> << >>, chunksX |-> 0, chunksY |-> 0,
     dirtyChunks |-> << >>, rng |-> <<0, 0>>, toggleTemp |-> FALSE,
     running |-> TRUE, tickAccumulator |-> 0, pending |-> 0, surface |-> << >>]

resString(w, h) == ToString(w) \o "x" \o ToString(h)
\* the resolutions offered: the default one and its transpose
Resolutions == {resString(GridW, GridH), resString(GridH, GridW)}
\* the values of App.seed tried, as <<high, low>> 16-bit halves
Seeds == {<<0, 12345>>, <<1, 34463>>}

\* boot(): setResolution, then App.rng = rand(App.seed), then startLoop()
boot(res, seed) == startLoop([setResolution(App0, res) EXCEPT !.rng = seed])

noFile == [present |-> FALSE, w |-> "", h |-> "", mat |-> << >>, hasTemp |-> FALSE, temp |-> << >>]
\* the save file in flight, with (history) the App object it was exported from
FileOf(f, a) == [file |-> f, world |-> a]
Op(name, x, y, id) == [op |-> name, x |-> x, y |-> y, id |-> id]

InitHist(a, cur, br, b, first) ==
    /\ App = a
    /\ currentMaterial = cur
    /\ brush = br
    /\ saveFile = FileOf(noFile, App0)
    /\ hist = << first >>
    /\ pre = App0
    /\ runB = b

InitFull(a, cur, br, b) == InitHist(a, cur, br, b, Op("boot", 0, 0, ""))

\* let currentMaterial = 'SAND'; let brush = {size, soft: false}, the size
\* scaled to the grid
InitWith(a) == InitFull(a, "SAND", [size |-> 1, soft |-> FALSE], App0)

Init == \E res \in Resolutions, seed \in Seeds : InitWith(boot(res, seed))

(***************************************************************************)
(* Operations.                                                             *)
(***************************************************************************)
lastOp == hist[Len(hist)]
CanAct == Len(hist) <= MaxOps
Did(a, o) ==
    /\ App' = a
    /\ pre' = App
    /\ hist' = Append(hist, o)

\* the lists of outcomes of up to n Math.random() comparisons
DrawLists(n) == UNION {[1..k -> BOOLEAN] : k \in 0..n}
\* no list longer than the comparisons that can consume it
Draws(need) == {d \in DrawLists(MaxDraws) : Len(d) = Min(need, MaxDraws)}

\* coordinates a caller passes: corners of the grid, and a place right of
\* the grid whose flat index falls on the first cell of the next row
Probes(a) == { <<0, 0>>, <<a.gridW - 1, 0>>, <<a.gridW - 1, a.gridH - 1>>, <<a.gridW, 0>> }
\* brush centres: two opposite corners and a cell of the top row
Centres(a) == { <<0, 0>>, <<1, 0>>, <<a.gridW - 1, a.gridH - 1>> }
\* material ids a caller passes; GLASS is not registered
SetIds == {"SAND", "GLASS"}
PaintIds == {"WATER", "GLASS"}

\* loadLevel(levelId) of a level with the empty start map
LoadLevel ==
    /\ CanAct
    /\ Did(allocateWorld(setResolution(App, resString(GridW, GridH)), GridW, GridH),
           Op("loadLevel", 0, 0, ""))
    /\ UNCHANGED <<currentMaterial, brush, saveFile, runB>>

SetResolution ==
    /\ CanAct
    /\ \E res \in Resolutions : Did(setResolution(App, res), Op("setResolution", 0, 0, res))
    /\ UNCHANGED <<currentMaterial, brush, saveFile, runB>>

SetMatAt ==
    /\ CanAct
    /\ \E c \in Probes(App), id \in SetIds :
          Did(setMatAt(App, c[1], c[2], id), Op("setMatAt", c[1], c[2], id))
    /\ UNCHANGED <<currentMaterial, brush, saveFile, runB>>

SelectMaterial ==
    /\ CanAct
    /\ \E id \in PaintIds :
          /\ currentMaterial' = id
          /\ Did(App, Op("selectMaterial", 0, 0, id))
    /\ UNCHANGED <<brush, saveFile, runB>>

\* the wheel and the [ ] keys: brush.size one up or one down, at least 1
BrushSize ==
    /\ CanAct
    /\ \E d \in {0 - 1, 1} :
          /\ brush.size + d <= MaxBrush
          /\ brush' = [brush EXCEPT !.size = Max(1, brush.size + d)]
          /\ brush' # brush
          /\ Did(App, Op("brushSize", d, 0, ""))
    /\ UNCHANGED <<currentMaterial, saveFile, runB>>

DrawBrushAt ==
    /\ CanAct
    /\ \E c \in Centres(App) :
       \E d \in Draws(IF brush.soft THEN Len(brushCells(App, c[1], c[2], brush.size)) ELSE 0) :
          Did(drawBrushAt(App, c[1], c[2], brush, currentMaterial, d),
              Op("drawBrushAt", c[1], c[2], currentMaterial))
    /\ UNCHANGED <<currentMaterial, brush, saveFile, runB>>

SimTick ==
    /\ CanAct
    /\ \E d \in Draws(2 * reactionPairs(pass1(App, 0), 0)) :
          Did(simTick(App, d), Op("simTick", 0, 0, ""))
    /\ UNCHANGED <<currentMaterial, brush, saveFile, runB>>

Render ==
    /\ CanAct
    /\ Did(render(App), Op("render", 0, 0, ""))
    /\ UNCHANGED <<currentMaterial, brush, saveFile, runB>>

ToggleTemp ==
    /\ CanAct
    /\ Did([App EXCEPT !.toggleTemp = ~App.toggleTemp], Op("toggleTemp", 0, 0, ""))
    /\ UNCHANGED <<currentMaterial, brush, saveFile, runB>>

SaveWorld ==
    /\ CanAct
    /\ saveFile' = FileOf(saveWorldPrompt(App), App)
    /\ Did(App, Op("saveWorld", 0, 0, ""))
    /\ UNCHANGED <<currentMaterial, brush, runB>>

\* the files a user can pick: the exported one, and edits of it
FilesFrom(f) ==
    { f,
      [f EXCEPT !.mat = SubSeq(f.mat, 1, Len(f.mat) - 1)],
      [f EXCEPT !.mat = Append(f.mat, jsonNumber(1))],
      [f EXCEPT !.hasTemp = FALSE, !.temp = << >>] }

\* x is the length of the file's mat array, y the length of its temp array
LoadWorld ==
    /\ CanAct
    /\ saveFile.file.present
    /\ \E f \in FilesFrom(saveFile.file) :
          Did(loadWorld(App, f).a,
              Op(IF loadWorld(App, f).thrown THEN "loadWorldThrown" ELSE "loadWorld",
                 Len(f.mat), Len(f.temp), IF f = saveFile.file THEN "saved" ELSE "edited"))
    /\ UNCHANGED <<currentMaterial, brush, saveFile, runB>>

Next ==
    \/ LoadLevel
    \/ SetResolution
    \/ SetMatAt
    \/ SelectMaterial
    \/ BrushSize
    \/ DrawBrushAt
    \/ SimTick
    \/ Render
    \/ ToggleTemp
    \/ SaveWorld
    \/ LoadWorld

Spec == Init /\ [][Next]_vars
(***************************************************************************)
(* Worlds a user has painted: the booted world, optionally erased to EMPTY *)
(* cell by cell, with up to two cells painted (paintCell is the store of a *)
(* soft brush that takes the centre cell only), then rendered.             *)
(***************************************************************************)
RECURSIVE paintEach(_, _, _)
paintEach(a, k, id) ==
    IF k >= a.gridW * a.gridH THEN a
    ELSE paintEach(paintCell(a, <<k % a.gridW, k \div a.gridW>>, id), k + 1, id)

AllCells(a) == {<<x, y>> : x \in 0..(a.gridW - 1), y \in 0..(a.gridH - 1)}
Backgrounds(a) == {a, paintEach(a, 0, "EMPTY")}
PaintedWorlds(a, ids) ==
    LET one == {paintCell(b, c, id) : b \in Backgrounds(a), c \in AllCells(a), id \in ids}
        two == {paintCell(b, c, id) : b \in one, c \in AllCells(a), id \in ids}
    IN  {render(b) : b \in Backgrounds(a) \cup one \cup two}

\* materials painted before a tick is observed
TickIds == {"SAND", "WATER", "STONE", "FIRE", "LAVA", "SANDSTONE"}

InitTick ==
    \E res \in Resolutions, seed \in Seeds, temp \in BOOLEAN :
    \E a \in PaintedWorlds(boot(res, seed), TickIds) :
        InitWith([a EXCEPT !.toggleTemp = temp])

NextTick == SimTick

\* simTick calls on painted worlds
SpecTick == InitTick /\ [][NextTick]_vars

\* every operation from the booted world, and simTick and render from the
\* painted worlds with the temperature stage switched on
InitPainted ==
    \E res \in Resolutions :
    \E a \in PaintedWorlds(boot(res, <<1, 34463>>), {"SAND", "WATER", "FIRE", "LAVA"}) :
        InitHist([a EXCEPT !.toggleTemp = TRUE], "SAND", [size |-> 1, soft |-> FALSE], App0,
                 Op("painted", 0, 0, ""))

InitDirty == Init \/ InitPainted

NextDirty ==
    \/ hist[1].op = "boot" /\ Next
    \/ hist[1].op = "painted" /\ (SimTick \/ Render)

SpecDirty == InitDirty /\ [][NextDirty]_vars

\* save, resize, load on painted worlds
InitSave ==
    \E res \in Resolutions, seed \in Seeds :
    \E b \in Backgrounds(boot(res, seed)) :
    \E a \in {b} \cup {paintCell(b, c, id) : c \in AllCells(b), id \in {"SAND", "FIRE"}} :
        InitWith(render(a))

NextSave ==
    \/ SaveWorld
    \/ SetResolution
    \/ LoadWorld

SpecSave == InitSave /\ [][NextSave]_vars

\* painting with every brush on painted worlds: the size and the softness
\* are the arguments of paint
InitPaint ==
    \E res \in Resolutions, size \in 1..MaxBrush, soft \in BOOLEAN, id \in {"FIRE", "GLASS"} :
    \E b \in Backgrounds(boot(res, <<0, 12345>>)) :
    \E a \in {b} \cup {paintCell(b, c, "SAND") : c \in AllCells(b)} :
        InitFull(render(a), id, [size |-> size, soft |-> soft], App0)

\* one drawBrushAt with any centre on or next to the grid
PaintOnce ==
    /\ Len(hist) = 1
    /\ \E gx \in (0 - 1)..App.gridW, gy \in (0 - 1)..App.gridH :
       \E d \in Draws(IF brush.soft THEN Len(brushCells(App, gx, gy, brush.size)) ELSE 0) :
          Did(drawBrushAt(App, gx, gy, brush, currentMaterial, d),
              Op("drawBrushAt", gx, gy, currentMaterial))
    /\ UNCHANGED <<currentMaterial, brush, saveFile, runB>>

NextPaint == PaintOnce

SpecPaint == InitPaint /\ [][NextPaint]_vars

\* frames and play/pause on the booted world and on an EMPTY world holding
\* one SAND cell in the top row
InitLoop ==
    \E res \in Resolutions :
    \E a \in {boot(res, <<0, 12345>>),
              render(paintCell(paintEach(boot(res, <<0, 12345>>), 0, "EMPTY"), <<0, 0>>, "SAND"))} :
        InitWith(a)

\* elapsed times: none, less than a step, whole steps, and more than the cap
DtSet == {0, 1, StepUnits, 2 * StepUnits + 1, loopCap * StepUnits, (loopCap + 1) * StepUnits + 1}

\* the record of one frame callback that returned r after dt time units
DidLoop(r, dt) == Did(r.a, Op("loop", dt, r.calls, ToString(r.renders)))

\* a frame callback runs; x is dt, y the number of simTick calls, id the
\* number of render calls
Loop ==
    /\ CanAct
    /\ App.pending > 0
    /\ \E dt \in DtSet : DidLoop(loop(App, dt), dt)
    /\ UNCHANGED <<currentMaterial, brush, saveFile, runB>>

PlayPause ==
    /\ CanAct
    /\ Did(playPause(App), Op("playPause", 0, 0, ""))
    /\ UNCHANGED <<currentMaterial, brush, saveFile, runB>>

NextLoop ==
    \/ Loop
    \/ PlayPause

SpecLoop == InitLoop /\ [][NextLoop]_vars

\* markChunkDirtyForCell called with coordinates on and around the grid,
\* twice at most, and render
MarkDirty ==
    /\ Len(hist) <= 2
    /\ \E x \in (0 - 1)..App.gridW, y \in (0 - 1)..App.gridH :
          Did(markChunkDirtyForCell(App, x, y), Op("markDirty", x, y, ""))
    /\ UNCHANGED <<currentMaterial, brush, saveFile, runB>>

NextMark ==
    \/ MarkDirty
    \/ Render

SpecMark == Init /\ [][NextMark]_vars

\* an index no material of the registry has: what a save file written under
\* a larger registry holds
StaleIdx == 99

\* simTick on worlds restored from a save file in which one cell holds a
\* stale index: an EMPTY world with one painted cell is saved, one entry of
\* mat is replaced, and the file is loaded
InitStale ==
    \E res \in Resolutions, seed \in Seeds, temp \in BOOLEAN :
    \E b \in {paintEach(boot(res, seed), 0, "EMPTY")} :
    \E c \in AllCells(b), sc \in AllCells(b), id \in {"SAND", "WATER", "FIRE"} :
        LET w == paintCell(b, c, id)
            f == saveWorldPrompt(w)
            g == [f EXCEPT !.mat[idx(b, sc[1], sc[2]) + 1] = jsonNumber(StaleIdx)]
        IN  InitWith([loadWorld(w, g).a EXCEPT !.toggleTemp = temp])

NextStale == SimTick

SpecStale == InitStale /\ [][NextStale]_vars

\* The temperature stage as a function of the cell and of the definition of
\* its material (the registry is data: materials.json may set flammable on
\* any material).  The worlds: an EMPTY world where one cell was painted
\* EMPTY, FIRE or LAVA, which sets its temperature, and then set to a
\* material with setMatAt, which keeps the temperature.
InitTemp ==
    \E res \in Resolutions :
    \E b \in {paintEach(boot(res, <<0, 12345>>), 0, "EMPTY")} :
    \E c \in AllCells(b), heat \in {"EMPTY", "FIRE", "LAVA"}, id \in {"WATER", "LAVA", "OIL", "SAND"} :
        InitWith(render(setMatAt(paintCell(b, c, heat), c[1], c[2], id)))

\* one temperature stage of one non-EMPTY cell; id says whether the
\* definition of its material has the flammable property
TempStage ==
    /\ Len(hist) = 1
    /\ \E c \in AllCells(App) :
          LET mIdx == App.worldMat[idx(App, c[1], c[2])]
          IN  /\ mIdx > 0
              /\ \E mat \in {getMatByIndex(mIdx), [getMatByIndex(mIdx) EXCEPT !.flammable = TRUE]} :
                    Did(tempStage(App, c[1], c[2], mIdx, mat),
                        Op("tempStage", c[1], c[2], IF mat.flammable THEN "flammable" ELSE ""))
    /\ UNCHANGED <<currentMaterial, brush, saveFile, runB>>

NextTemp == TempStage

SpecTemp == InitTemp /\ [][NextTemp]_vars

\* simTick on worlds with material at the edges: an EMPTY world with one
\* painted cell of the materials that move, diffuse heat or react, alone or
\* with a second painted cell in the first or the last column, with the
\* temperature stage on
EdgeCells(a) == {c \in AllCells(a) : c[1] \in {0, a.gridW - 1}}
EdgeIds == {"SAND", "WATER", "FIRE", "LAVA", "ACID", "OIL", "SEED"}
EdgeNeighbourIds == {"METAL", "FIRE", "WATER"}
InitEdge ==
    \E res \in Resolutions, seed \in Seeds :
    \E b \in {paintEach(boot(res, seed), 0, "EMPTY")} :
    \E c \in AllCells(b), id \in EdgeIds :
    \E a \in {paintCell(b, c, id)}
               \cup {paintCell(paintCell(b, c2, id2), c, id) :
                        c2 \in EdgeCells(b), id2 \in EdgeNeighbourIds} :
        InitWith([render(a) EXCEPT !.toggleTemp = TRUE])

\* one simTick per world
TickOnce ==
    /\ Len(hist) = 1
    /\ SimTick

NextEdge == TickOnce

SpecEdge == InitEdge /\ [][NextEdge]_vars

\* two runs from the same seed and the same grid, stepped together; the
\* grid holds two adjacent painted cells
DetIds == {"SAND", "WATER", "ACID", "METAL", "OIL", "FIRE", "SEED"}
InitDet ==
    \E res \in Resolutions, seed \in Seeds :
    \E b \in {paintEach(boot(res, seed), 0, "EMPTY")} :
    \E c \in AllCells(b), id1 \in DetIds, id2 \in DetIds :
        /\ c[1] + 1 < b.gridW
        /\ LET a == render(paintCell(paintCell(b, c, id1), <<c[1] + 1, c[2]>>, id2))
           IN  InitFull(a, "SAND", [size |-> 1, soft |-> FALSE], a)

TickBoth ==
    /\ CanAct
    /\ \E d1 \in Draws(2 * reactionPairs(pass1(App, 0), 0)),
          d2 \in Draws(2 * reactionPairs(pass1(runB, 0), 0)) :
          /\ Did(simTick(App, d1), Op("simTick", 0, 0, ""))
          /\ runB' = simTick(runB, d2)
    /\ UNCHANGED <<currentMaterial, brush, saveFile>>

NextDet == TickBoth

SpecDet == InitDet /\ [][NextDet]_vars

(***************************************************************************)
(* Properties.                                                             *)
(***************************************************************************)
Cells(a) == DOMAIN a.worldMat
Chunks(a) == DOMAIN a.dirtyChunks
DirtySet(a) == {c \in Chunks(a) : a.dirtyChunks[c] # 0}
cellX(a, i) == i % a.gridW
cellY(a, i) == i \div a.gridW
prevOp == hist[Len(hist) - 1]
Registered(mIdx) == mIdx \in 0..(Len(materials) - 1)

\* C1: a cell whose material index differs from the one it held when its
\* chunk's flag was last cleared lies in a chunk whose flag is set; and
\* every cell a simTick call changed lies in a chunk whose flag is set.
C1_DirtyCoversChanges ==
    /\ \A i \in Cells(App) :
          App.worldMat[i] # App.cleanMat[i] => App.dirtyChunks[chunkOfCell(App, i)] = 1
    /\ lastOp.op = "simTick" =>
          \A i \in Cells(App) :
             App.worldMat[i] # pre.worldMat[i] => App.dirtyChunks[chunkOfCell(App, i)] = 1

\* a simTick that started with no chunk dirty moved material out of cells of
\* two different chunks, and both chunks are now dirty
C1_Witness ==
    /\ lastOp.op = "simTick"
    /\ DirtySet(pre) = {}
    /\ \E i, j \in Cells(App) :
          /\ chunkOfCell(App, i) # chunkOfCell(App, j)
          /\ pre.worldMat[i] > 0 /\ App.worldMat[i] = 0
          /\ pre.worldMat[j] > 0 /\ App.worldMat[j] = 0
          /\ {chunkOfCell(App, i), chunkOfCell(App, j)} \subseteq DirtySet(App)

\* C2: after allocateWorld every chunk is dirty; after render none is; after
\* one in-bounds setMatAt that follows a render exactly the chunk of
\* (x, y) is dirty.
C2_DirtyTracking ==
    /\ lastOp.op = "loadLevel" => DirtySet(App) = Chunks(App)
    /\ lastOp.op = "render" => DirtySet(App) = {}
    /\ ( /\ lastOp.op = "setMatAt" /\ prevOp.op = "render"
         /\ lastOp.x \in 0..(App.gridW - 1) /\ lastOp.y \in 0..(App.gridH - 1) )
       => DirtySet(App) = {chunkOfCell(App, idx(App, lastOp.x, lastOp.y))}

\* allocateWorld, render, then a setMatAt into a cell of a chunk other than
\* the first, of a world with several chunks
C2_Witness ==
    /\ Len(hist) >= 4
    /\ hist[Len(hist) - 2].op = "loadLevel"
    /\ prevOp.op = "render"
    /\ lastOp.op = "setMatAt"
    /\ Cardinality(Chunks(App)) > 1
    /\ DirtySet(App) = {chunkOfCell(App, idx(App, lastOp.x, lastOp.y))}
    /\ 0 \notin DirtySet(App)

\* the number of cells of arr holding v
CountOf(arr, v) == Cardinality({i \in DOMAIN arr : arr[i] = v})
\* hist is boot, one setMatAt of SAND into row 0, then n simTick calls
SandDrop(n) ==
    /\ Len(hist) = n + 2
    /\ hist[1].op = "boot"
    /\ hist[2].op = "setMatAt" /\ hist[2].id = "SAND" /\ hist[2].y = 0
    /\ hist[2].x \in 0..(App.gridW - 1)
    /\ \A k \in 3..Len(hist) : hist[k].op = "simTick"

\* C5: on a freshly allocated world with one SAND cell set at (x, 0) and the
\* temperature stage off, after n <= H-1 simTick calls the sand is at (x, n)
\* and nowhere else.
C5_SandReachesBottom ==
    \A n \in 1..(App.gridH - 1) :
       SandDrop(n) =>
          /\ App.worldMat[idx(App, hist[2].x, n)] = getMatIndex("SAND")
          /\ CountOf(App.worldMat, getMatIndex("SAND")) = 1

\* C7: loading the unedited file that saveWorldPrompt exported from world w
\* yields a world with w's width and height, materialIndex and temperature.
C7_RoundTrip ==
    (lastOp.op = "loadWorld" /\ lastOp.id = "saved") =>
       /\ App.gridW = saveFile.world.gridW
       /\ App.gridH = saveFile.world.gridH
       /\ App.worldMat = saveFile.world.worldMat
       /\ App.worldTemp = saveFile.world.worldTemp

\* the restore replaced a world of another content by the saved one, which
\* holds fresh cells (-1) and painted cells
C7_Witness ==
    /\ lastOp.op = "loadWorld" /\ lastOp.id = "saved"
    /\ pre.worldMat # App.worldMat
    /\ App.worldMat = saveFile.world.worldMat
    /\ \E i, j \in Cells(App) : App.worldMat[i] < 0 /\ App.worldMat[j] > 0

\* C8: a load of a file whose mat or temp array length differs from w*h
\* leaves width, height, materialIndex, temperature and dirty flags as they were.
C8_MismatchRejected ==
    ( /\ lastOp.op \in {"loadWorld", "loadWorldThrown"}
      /\ \/ lastOp.x # saveFile.world.gridW * saveFile.world.gridH
         \/ (lastOp.y # 0 /\ lastOp.y # saveFile.world.gridW * saveFile.world.gridH) )
    => /\ App.gridW = pre.gridW /\ App.gridH = pre.gridH
       /\ App.worldMat = pre.worldMat
       /\ App.worldTemp = pre.worldTemp
       /\ App.dirtyChunks = pre.dirtyChunks

\* C9: setMatAt or drawBrushAt with an unregistered id leaves the material
\* index of every cell that holds a registered material unchanged.
C9_UnknownIdIsNoOp ==
    (lastOp.op \in {"setMatAt", "drawBrushAt"} /\ ~HasId(materials, lastOp.id)) =>
       \A i \in Cells(App) : Registered(pre.worldMat[i]) => App.worldMat[i] = pre.worldMat[i]

\* C10: after allocateWorld every cell holds getMatIndex('EMPTY'), which is
\* 0, and the ambient temperature.
C10_AllocateFillsEmpty ==
    (lastOp.op \in {"boot", "loadLevel", "setResolution"}) =>
       \A i \in Cells(App) :
          /\ App.worldMat[i] = getMatIndex("EMPTY")
          /\ App.worldMat[i] = 0
          /\ App.worldTemp[i] = 20 * TempScale

\* C3: a simTick on a grid of registered materials, with the temperature
\* stage off and no reaction pair in the grid, leaves the number of cells
\* holding m unchanged, for every registered material m other than EMPTY.
C3_MassConserved ==
    ( /\ lastOp.op = "simTick" /\ ~pre.toggleTemp
      /\ \A i \in Cells(pre) : Registered(pre.worldMat[i])
      /\ reactionPairs(pre, 0) = 0 /\ reactionPairs(pass1(pre, 0), 0) = 0 )
    => \A m \in 1..(Len(materials) - 1) :
          CountOf(App.worldMat, m) = CountOf(pre.worldMat, m)

\* C4: two runs from the same seed and the same initial grid that made the
\* same number of simTick calls hold the same materialIndex and temperature.
C4_Deterministic ==
    /\ App.worldMat = runB.worldMat
    /\ App.worldTemp = runB.worldTemp

\* cell i lies within distance r of (gx, gy)
InBrush(a, i, gx, gy, r) ==
    (cellX(a, i) - gx) * (cellX(a, i) - gx) + (cellY(a, i) - gy) * (cellY(a, i) - gy) <= r * r

\* C6: drawBrushAt changes materialIndex and temperature only in cells that
\* are inside the grid and within the brush radius of the centre, sets the
\* dirty flag only of chunks holding such a cell, and leaves the size of the
\* grid and of its arrays as they were.
C6_PaintStaysInBrush ==
    lastOp.op = "drawBrushAt" =>
       /\ App.gridW = pre.gridW /\ App.gridH = pre.gridH
       /\ Cells(App) = Cells(pre) /\ DOMAIN App.worldTemp = DOMAIN pre.worldTemp
       /\ Chunks(App) = Chunks(pre)
       /\ \A i \in Cells(pre) :
             ~InBrush(pre, i, lastOp.x, lastOp.y, brush.size) =>
                App.worldMat[i] = pre.worldMat[i] /\ App.worldTemp[i] = pre.worldTemp[i]
       /\ \A c \in Chunks(pre) :
             App.dirtyChunks[c] # pre.dirtyChunks[c] =>
                \E i \in Cells(pre) :
                   /\ chunkOfCell(pre, i) = c
                   /\ InBrush(pre, i, lastOp.x, lastOp.y, brush.size)
                   /\ App.dirtyChunks[c] = 1

\* a brush larger than the grid, centred on the last cell, changed the
\* material and the temperature of every cell
C6_Witness ==
    /\ lastOp.op = "drawBrushAt"
    /\ lastOp.x = App.gridW - 1 /\ lastOp.y = App.gridH - 1
    /\ brush.size > App.gridW /\ brush.size > App.gridH
    /\ \A i \in Cells(App) :
          /\ App.worldMat[i] = getMatIndex("FIRE") /\ App.worldMat[i] # pre.worldMat[i]
          /\ App.worldTemp[i] = 800 * TempScale /\ App.worldTemp[i] # pre.worldTemp[i]

\* C11: in every state reached from allocateWorld by setMatAt, drawBrushAt
\* and simTick calls, every entry of worldMat is the index of a registered
\* material.
C11_ValidIndices ==
    (\A k \in DOMAIN hist : hist[k].op \in {"boot", "setMatAt", "drawBrushAt", "simTick"}) =>
       \A i \in Cells(App) : Registered(App.worldMat[i])

\* EMPTY or a material with the solid property
EmptyOrSolid(mIdx) ==
    Registered(mIdx) /\ (mIdx = getMatIndex("EMPTY") \/ getMatByIndex(mIdx).solid)

\* C12: a simTick on a grid whose cells are all EMPTY or solid, with no
\* reaction pair and no flammable cell under the temperature stage, leaves
\* worldMat unchanged.
C12_SolidsStay ==
    ( /\ lastOp.op = "simTick"
      /\ \A i \in Cells(pre) : EmptyOrSolid(pre.worldMat[i])
      /\ reactionPairs(pre, 0) = 0
      /\ pre.toggleTemp => \A i \in Cells(pre) : ~getMatByIndex(pre.worldMat[i]).flammable )
    => App.worldMat = pre.worldMat

\* C13: a loop call while running adds dt to the accumulator, calls simTick
\* k times for k the number of whole step intervals in the accumulator,
\* capped at loopCap, takes k step intervals off the accumulator, then
\* calls render once, which leaves no chunk dirty.
C13_FrameLoop ==
    (lastOp.op = "loop" /\ pre.running) =>
       LET acc == pre.tickAccumulator + lastOp.x
           k == Min(acc \div StepUnits, 6)
       IN  /\ lastOp.y = k
           /\ App.tickAccumulator = acc - k * StepUnits
           /\ lastOp.id = "1"
           /\ DirtySet(App) = {}

\* a frame that arrived with more than the cap of step intervals ran 6
\* simTick calls, moved the sand to the bottom row and kept the excess
C13_Witness ==
    /\ lastOp.op = "loop" /\ pre.running
    /\ lastOp.x > 6 * StepUnits
    /\ lastOp.y = 6
    /\ App.tickAccumulator >= StepUnits
    /\ pre.worldMat[0] = getMatIndex("SAND")
    /\ App.worldMat[idx(App, 0, App.gridH - 1)] = getMatIndex("SAND")

\* C14: markChunkDirtyForCell(x, y) with (x, y) outside the grid leaves
\* every chunk flag as it was; with (x, y) inside the grid it sets the flag
\* of chunk (floor(x/chunkSize), floor(y/chunkSize)) and changes no other.
C14_MarkDirtyInRangeOnly ==
    lastOp.op = "markDirty" =>
       IF lastOp.x \in 0..(App.gridW - 1) /\ lastOp.y \in 0..(App.gridH - 1)
       THEN App.dirtyChunks =
               [pre.dirtyChunks EXCEPT
                   ![(lastOp.y \div chunkSize) * App.chunksX + (lastOp.x \div chunkSize)] = 1]
       ELSE App.dirtyChunks = pre.dirtyChunks

\* C15: a load of a file that has w, h and a mat array of w*h elements but
\* no temp array succeeds and leaves every cell at the ambient temperature
\* that allocateWorld fills in.
C15_MissingTempIsAmbient ==
    ( /\ lastOp.op \in {"loadWorld", "loadWorldThrown"}
      /\ lastOp.y = 0
      /\ lastOp.x = saveFile.world.gridW * saveFile.world.gridH )
    => /\ lastOp.op = "loadWorld"
       /\ \A i \in DOMAIN App.worldTemp : App.worldTemp[i] = 20 * TempScale

\* C16: in a simTick a cell holding an unregistered index is neither moved
\* nor transformed (no cell comes to hold an unregistered index it did not
\* hold), and a SAND cell directly above such a cell falls into it as it
\* falls into an EMPTY cell.
C16_StaleActsAsEmpty ==
    lastOp.op = "simTick" =>
       /\ \A i \in Cells(App) : ~Registered(App.worldMat[i]) => App.worldMat[i] = pre.worldMat[i]
       /\ \A i \in Cells(pre) :
             ( /\ pre.worldMat[i] = getMatIndex("SAND")
               /\ cellY(pre, i) + 1 < pre.gridH
               /\ ~Registered(pre.worldMat[i + pre.gridW]) )
             => /\ App.worldMat[i + pre.gridW] = getMatIndex("SAND")
                /\ App.worldMat[i] = getMatIndex("EMPTY")

\* a cell holding material index m at i may move into cell d by the sand
\* rule (down, diagonally down) or the liquid rule (down, sideways)
MayEnter(a, i, d) ==
    LET mat == getMatByIndex(a.worldMat[i])
        dx == cellX(a, d) - cellX(a, i)
        dy == cellY(a, d) - cellY(a, i)
        sandy == startsWith(mat.id, "SAND")
        liquid == mat.flow \/ mat.id = "WATER" \/ mat.id = "OIL"
    IN  /\ mat.defined /\ (sandy \/ liquid)
        /\ \/ dy = 1 /\ dx = 0
           \/ sandy /\ dy = 1 /\ dx \in {0 - 1, 1}
           \/ liquid /\ dy = 0 /\ dx \in {0 - 1, 1}

\* C17: when the only two non-EMPTY cells of a grid are both eligible to
\* move into the same EMPTY cell and neither can move into the other's
\* cell, a simTick (temperature stage off, no reaction pair) leaves both
\* materials in the grid: the count of every material is unchanged.
C17_SameDestinationKeepsBoth ==
    ( /\ lastOp.op = "simTick" /\ ~pre.toggleTemp
      /\ reactionPairs(pre, 0) = 0 /\ reactionPairs(pass1(pre, 0), 0) = 0
      /\ \E i, j, d \in Cells(pre) :
            /\ i # j
            /\ \A c \in Cells(pre) : pre.worldMat[c] = (IF c \in {i, j} THEN pre.worldMat[c] ELSE 0)
            /\ pre.worldMat[i] > 0 /\ pre.worldMat[j] > 0
            /\ MayEnter(pre, i, d) /\ MayEnter(pre, j, d)
            /\ ~MayEnter(pre, i, j) /\ ~MayEnter(pre, j, i) )
    => \A m \in 1..(Len(materials) - 1) :
          CountOf(App.worldMat, m) = CountOf(pre.worldMat, m)

\* C18: with the temperature stage on, a cell that moved in pass 1 got the
\* temperature stage at its new place in the same simTick: on a grid of
\* registered materials, no EMPTY cell that received a material in this
\* call is left holding WATER above the
\* boiling threshold, LAVA below the solidification threshold or a flammable
\* material above the ignition threshold.
C18_MovedCellGetsTempStage ==
    ( /\ lastOp.op = "simTick" /\ pre.toggleTemp
      /\ \A i \in Cells(pre) : Registered(pre.worldMat[i]) ) =>
       \A i \in Cells(App) :
          (pre.worldMat[i] = getMatIndex("EMPTY") /\ App.worldMat[i] # pre.worldMat[i]) =>
             LET mat == getMatByIndex(App.worldMat[i])
             IN  /\ mat.id = "WATER" => App.worldTemp[i] <= 100 * TempScale
                 /\ mat.id = "LAVA" => App.worldTemp[i] >= 500 * TempScale
                 /\ mat.flammable => App.worldTemp[i] <= 300 * TempScale

\* C19: the temperature stage of a cell fires the first rule that matches
\* its diffused temperature d and no other: WATER above 100 becomes STEAM
\* at d + 10; else LAVA below 500 becomes STONE at 100; else a flammable
\* material above 300 becomes FIRE at 800; else the material stays, at d.
C19_OneTransition ==
    lastOp.op = "tempStage" =>
       LET i == idx(pre, lastOp.x, lastOp.y)
           d == diffusedTemp(pre, lastOp.x, lastOp.y)
           m == pre.worldMat[i]
       IN  IF m = getMatIndex("WATER") /\ d > 100 * TempScale
           THEN App.worldMat[i] = getMatIndex("STEAM") /\ App.worldTemp[i] = d + 10 * TempScale
           ELSE IF m = getMatIndex("LAVA") /\ d < 500 * TempScale
           THEN App.worldMat[i] = getMatIndex("STONE") /\ App.worldTemp[i] = 100 * TempScale
           ELSE IF lastOp.id = "flammable" /\ d > 300 * TempScale
           THEN App.worldMat[i] = getMatIndex("FIRE") /\ App.worldTemp[i] = 800 * TempScale
           ELSE App.worldMat[i] = m /\ App.worldTemp[i] = d

\* the materials that fall: those the sand rule or the liquid rule moves
Falling(m) ==
    LET mat == getMatByIndex(m)
    IN  m > 0 /\ mat.defined /\ ~(mat.id \in {"WALL", "ERASER"})
        /\ (startsWith(mat.id, "SAND") \/ mat.flow \/ mat.id = "WATER" \/ mat.id = "OIL")

\* the number of cells of a holding m in row r or below it
CountFromRow(a, m, r) ==
    Cardinality({i \in Cells(a) : a.worldMat[i] = m /\ cellY(a, i) >= r})

C21_BlockedSandStays ==
    lastOp.op = "simTick" =>
       \A i \in Cells(pre) :
          ( /\ pre.worldMat[i] = getMatIndex("SAND")
            /\ cellY(pre, i) = pre.gridH - 1
            /\ \A c \in Cells(pre) \ {i} : pre.worldMat[c] = getMatIndex("EMPTY") )
          => App.worldMat[i] = getMatIndex("SAND")

\* the sum of the temperatures of the cells at the coordinates nbs
RECURSIVE SumTempAt(_, _)
SumTempAt(a, nbs) ==
    IF nbs = << >> THEN 0
    ELSE a.worldTemp[idx(a, Head(nbs)[1], Head(nbs)[2])] + SumTempAt(a, Tail(nbs))

\* C22: the temperature stage moves the temperature t of a cell one tenth of
\* the way to the mean M of its orthogonal neighbours inside the grid, the
\* cell itself not counted: for a cell whose material has no threshold rule
\* (SAND, not flammable) the new temperature is t + 0.1 * (M - t).
C22_MeanOfNeighboursOnly ==
    ( /\ lastOp.op = "tempStage" /\ lastOp.id = ""
      /\ pre.worldMat[idx(pre, lastOp.x, lastOp.y)] = getMatIndex("SAND") ) =>
       LET i == idx(pre, lastOp.x, lastOp.y)
           t == pre.worldTemp[i]
           nbs == neighborCoords(pre, lastOp.x, lastOp.y)
           n == Len(nbs)
       IN  App.worldTemp[i] = t + RoundDiv(SumTempAt(pre, nbs) - n * t, n * 10)

\* cells i and j of a are the same cell or neighbours in 2-D, orthogonally
\* or diagonally
Adjacent(a, i, j) ==
    /\ cellX(a, i) - cellX(a, j) \in {0 - 1, 0, 1}
    /\ cellY(a, i) - cellY(a, j) \in {0 - 1, 0, 1}

\* r is a with no cell changed but cells adjacent to cell i
WritesNear(a, r, i) ==
    /\ DOMAIN r.worldMat = DOMAIN a.worldMat
    /\ DOMAIN r.worldTemp = DOMAIN a.worldTemp
    /\ \A j \in Cells(a) :
          (r.worldMat[j] # a.worldMat[j] \/ r.worldTemp[j] # a.worldTemp[j]) => Adjacent(a, i, j)

\* a with the content of cell j replaced: material index m, another temperature
WithCell(a, j, m) ==
    [a EXCEPT !.worldMat[j] = m, !.worldTemp[j] = @ + 1000 * TempScale]

\* contents that flip every test simTick makes on a neighbour
ProbeMats == {getMatIndex(id) : id \in {"EMPTY", "STONE", "METAL", "FIRE", "WATER"}}

\* r and r2 agree on the random state and on every cell but j
SameBut(r, r2, j) ==
    /\ r2.rng = r.rng
    /\ \A k \in DOMAIN r.worldMat \ {j} :
          r2.worldMat[k] = r.worldMat[k] /\ r2.worldTemp[k] = r.worldTemp[k]

\* the draws that make every Math.random() comparison of one cell succeed
AllDraws == [k \in 1..8 |-> TRUE]

\* the pass-1 and pass-2 steps of cell (x, y) of a write only cells adjacent
\* to it and read no cell that is not adjacent to it
CellStepLocal(a, x, y) ==
    LET i == idx(a, x, y)
        r1 == pass1Cell(a, x, y)
        r2 == pass2Cell([a |-> a, d |-> AllDraws], x, y).a
    IN  /\ WritesNear(a, r1, i)
        /\ WritesNear(a, r2, i)
        /\ \A j \in Cells(a) : \A m \in ProbeMats :
              ~Adjacent(a, i, j) =>
                 /\ SameBut(r1, pass1Cell(WithCell(a, j, m), x, y), j)
                 /\ SameBut(r2, pass2Cell([a |-> WithCell(a, j, m), d |-> AllDraws], x, y).a, j)

\* C23: simTick treats a neighbour missing at a grid edge as absent: the
\* step of every cell of the grid simTick ran on writes only cells inside
\* the grid that are the cell itself or adjacent to it in 2-D, and its
\* result does not depend on any other cell, so nothing passes from one
\* edge column to the opposite one through the flat index.
C23_EdgeNeighboursAbsent ==
    lastOp.op = "simTick" =>
       \A c \in AllCells(pre) : CellStepLocal(pre, c[1], c[2])

\* a WATER cell alone in column 0 of the bottom row of a grid three columns
\* wide drew the direction left and stayed where it was
C23_Witness ==
    /\ lastOp.op = "simTick"
    /\ pre.gridW >= 3
    /\ rngDir(pre) = 0 - 1
    /\ \E i \in Cells(pre) :
          /\ cellX(pre, i) = 0 /\ cellY(pre, i) = pre.gridH - 1
          /\ pre.worldMat[i] = getMatIndex("WATER")
          /\ \A c \in Cells(pre) \ {i} : pre.worldMat[c] = getMatIndex("EMPTY")
          /\ App.worldMat = pre.worldMat
          /\ App.rng = rngNext(pre.rng)

C25_OneLoopPending == App.pending <= 1

\* the number of cells of a holding m in row r or above it
CountUpToRow(a, m, r) ==
    Cardinality({i \in Cells(a) : a.worldMat[i] = m /\ cellY(a, i) <= r})

\* no gas cell rose more than one row: for every gas m and row r, the cells
\* holding m in rows r - 1 and above in a2 are no more than those in rows r
\* and above in a
GasRisesOneRow(a, a2) ==
    \A m \in 1..(Len(materials) - 1) : \A r \in 0..(a.gridH - 1) :
       getMatByIndex(m).isGas => CountUpToRow(a2, m, r - 1) <= CountUpToRow(a, m, r)

\* no liquid cell of the bottom row, where it cannot fall, went more than
\* one column away: every cell holding the liquid m (a flow material that
\* is not sand) in a2 is within one column of a cell that held m in a
LiquidFlowsOneColumn(a, a2) ==
    \A m \in 1..(Len(materials) - 1) :
       ( /\ getMatByIndex(m).flow /\ ~startsWith(getMatByIndex(m).id, "SAND")
         /\ \A i \in Cells(a) : a.worldMat[i] = m => cellY(a, i) = a.gridH - 1 ) =>
          \A j \in Cells(a2) :
             a2.worldMat[j] = m =>
                \E i \in Cells(a) :
                   a.worldMat[i] = m /\ cellX(a, j) - cellX(a, i) \in {0 - 1, 0, 1}

\* C26: in one simTick (temperature stage off) every gas cell and every
\* liquid cell is relocated once at most: a gas cell ends at most one row
\* above, and a liquid cell flowing along the bottom row at most one column
\* away from, where it was before the call.
C26_RelocatedOnce ==
    (lastOp.op = "simTick" /\ ~pre.toggleTemp) =>
       GasRisesOneRow(pre, App) /\ LiquidFlowsOneColumn(pre, App)

\* C27: with the temperature stage off, simTick changes material indices
\* only: every entry of worldTemp and of worldMeta is what it was before the
\* call, so a temperature stays with its grid position when the material
\* there moves away.
C27_MovementKeepsTemperatures ==
    (lastOp.op = "simTick" /\ ~pre.toggleTemp) =>
       /\ App.worldTemp = pre.worldTemp
       /\ App.worldMeta = pre.worldMeta

\* a hot FIRE or LAVA cell moved into an EMPTY cell at ambient temperature:
\* the cell it left is EMPTY and still hot, the cell it entered still ambient
C27_Witness ==
    /\ lastOp.op = "simTick" /\ ~pre.toggleTemp
    /\ \E i, j \in Cells(pre) :
          /\ i # j
          /\ pre.worldMat[i] \in {getMatIndex("FIRE"), getMatIndex("LAVA")}
          /\ pre.worldTemp[i] > 20 * TempScale
          /\ pre.worldMat[j] = getMatIndex("EMPTY")
          /\ pre.worldTemp[j] = 20 * TempScale
          /\ App.worldMat[i] = getMatIndex("EMPTY")
          /\ App.worldMat[j] = pre.worldMat[i]
          /\ App.worldTemp[i] = pre.worldTemp[i]
          /\ App.worldTemp[j] = 20 * TempScale
====
